---- MODULE Spec2Model ----
(***************************************************************************)
(* TD3 agent of genrl (src/genrl/deep/agents/td3/td3.py).                  *)
(*                                                                         *)
(* Every network (actor, critic qf1, critic qf2 and their target copies)   *)
(* is represented by one scalar parameter on an integer grid.  Real        *)
(* arithmetic of the code (float tensors) is modelled as fixed-point       *)
(* arithmetic on that grid: every product with a fractional coefficient    *)
(* is rounded to the nearest grid point, ties to even, as a float product  *)
(* is rounded to the nearest representable value.                          *)
(***************************************************************************)
EXTENDS Integers, Sequences, FiniteSets, TLC

(* ------------------------------ bounds -------------------------------- *)
MaxSteps       == 4   \* steps_per_epoch * epochs of a training run
MaxInterval    == 2   \* largest update_interval
MaxFreq        == 2   \* largest policy_frequency
MaxStartUpdate == 1   \* largest start_update
MaxStartSteps  == 1   \* largest start_steps
MaxBatch       == 2   \* largest batch_size
MaxEpLen       == 2   \* largest max_ep_len
PolyDen        == 2   \* polyak ranges over 0/PolyDen .. PolyDen/PolyDen
NoiseMax       == 1   \* noise samples range over -NoiseMax..NoiseMax
n_envs         == 1   \* env.n_envs

NoiseVals == -NoiseMax..NoiseMax
StateVals == 0..1
Envs      == 1..n_envs
Nets      == {"actor", "qf1", "qf2"}
Critics   == {"qf1", "qf2"}

VARIABLES
  \* hyperparameters, fixed at construction
  policy_frequency, update_interval, start_update, start_steps, batch_size,
  max_ep_len, polyak, a_max,
  \* agent
  ac,             \* online parameters: [Nets -> Int]
  ac_target,      \* target parameters: [Nets -> Int]
  requires_grad,  \* requires_grad flag of the online critics' parameters
  noise,          \* "none" when self.noise is None, else the noise process state
  logs,           \* [policy_loss, value_loss]
  replay_buffer,
  \* learn()
  pc, timestep, state, episode_reward, episode_len,
  \* update_params()
  upd_timestep, batch,
  \* the select_action call made by the last step, if it made one
  call,
  \* history
  iters,          \* what each iteration of the current update_params call did
  hist,           \* over the whole run: did iteration j run the actor update
  n_sync,         \* number of target synchronizations of the run
  n_actor,        \* number of actor gradient steps of the run
  sync_from,      \* the parameters the last synchronization started from
  step_log,       \* what the last pass of the loop of learn() did
  \* calls from outside learn()
  logged,         \* the last get_logging_params call: the logs it found, its result
  flush_mark,     \* the number of gradient iterations run before that call
  loaded,         \* the last load_weights call: its argument, the targets it found
  \* argument and result of the function applied by SpecLoss and SpecSync
  fn_in, fn_out

hyper == <<policy_frequency, update_interval, start_update, start_steps,
           batch_size, max_ep_len, polyak, a_max>>
agent == <<ac, ac_target, requires_grad, noise, logs, replay_buffer>>
rollout == <<timestep, state, episode_reward, episode_len>>
history == <<iters, hist, n_sync, n_actor, sync_from, step_log>>
outside == <<logged, flush_mark, loaded>>
fn == <<fn_in, fn_out>>
vars == <<hyper, agent, pc, rollout, upd_timestep, batch, call, history, outside, fn>>

(* ----------------------- fixed-point arithmetic ----------------------- *)
\* n / d rounded to the nearest integer, ties to even (d > 0)
RoundDiv(n, d) ==
  LET q == n \div d
      r == n % d
  IN  IF 2 * r < d THEN q
      ELSE IF 2 * r > d THEN q + 1
      ELSE IF q % 2 = 0 THEN q ELSE q + 1

\* the product (num / den) * x of a coefficient and a tensor element
FMul(num, den, x) == RoundDiv(num * x, den)

Min(a, b) == IF a <= b THEN a ELSE b

(* --------------------------- select_action ---------------------------- *)
\* np.clip(action, lo, hi)
Clip(x, lo, hi) == IF x < lo THEN lo ELSE IF x > hi THEN hi ELSE x

\* output of an actor network with parameter theta at observation s
get_action(theta, s) == theta + 2 * s - 1

\* the noise process after one more sample
NoiseAdvance(nz) == IF nz = "fresh" THEN "used" ELSE IF nz = "used" THEN "used2" ELSE "used"

\* select_action clipping the actor's output before the noise is added
select_action_clip_first(s, deterministic, eps) ==
  LET raw     == [i \in DOMAIN s |-> get_action(ac_target["actor"], s[i])]
      clipped == [i \in DOMAIN s |-> Clip(raw[i], -a_max, a_max)]
  IN  [action |-> IF noise # "none" THEN [i \in DOMAIN s |-> clipped[i] + eps] ELSE clipped,
       raw    |-> raw,
       noise  |-> IF noise # "none" THEN NoiseAdvance(noise) ELSE noise]

\* select_action(state, deterministic) where the noise process, if called,
\* yields eps: the returned actions and the noise process afterwards
select_action(s, deterministic, eps) ==
  LET raw    == [i \in DOMAIN s |-> get_action(ac_target["actor"], s[i])]
      noised == IF noise # "none" THEN [i \in DOMAIN s |-> raw[i] + eps] ELSE raw
  IN  [action |-> [i \in DOMAIN s |-> Clip(noised[i], -a_max, a_max)],
       raw    |-> raw,
       noise  |-> IF noise # "none" THEN NoiseAdvance(noise) ELSE noise]

(* ----------------------------- get_q_loss ----------------------------- *)
GammaDen == 2   \* gamma ranges over 1/GammaDen .. (GammaDen-1)/GammaDen

Squeeze1(m)   == [i \in DOMAIN m |-> m[i][1]]
Unsqueeze1(v) == [i \in DOMAIN v |-> <<v[i]>>]

\* the target built on the mean of the two target critics
target_mean(gamma, reward, done, target_q1, target_q2) ==
  LET target_q == Unsqueeze1([i \in DOMAIN target_q1 |->
                               RoundDiv(target_q1[i] + target_q2[i], 2)])
      r        == Squeeze1(reward)
      tq       == Squeeze1(target_q)
  IN  [i \in DOMAIN r |-> r[i] + FMul(gamma * (1 - done[i]), GammaDen, tq[i])]

\* the bootstrapped target of get_q_loss for a batch
target(gamma, reward, done, target_q1, target_q2) ==
  LET target_q == Unsqueeze1([i \in DOMAIN target_q1 |-> Min(target_q1[i], target_q2[i])])
      r        == Squeeze1(reward)
      tq       == Squeeze1(target_q)
  IN  [i \in DOMAIN r |-> r[i] + FMul(gamma * (1 - done[i]), GammaDen, tq[i])]

(* --------------------------- target update ---------------------------- *)
\* the update with the two coefficients exchanged
PolyakUpdate_swapped(p, param_target, param) ==
  LET scaled == FMul(PolyDen - p, PolyDen, param_target)
  IN  scaled + FMul(p, PolyDen, param)

\* one parameter of the target network after the in-place update
PolyakUpdate(p, param_target, param) ==
  LET scaled == FMul(p, PolyDen, param_target)
  IN  scaled + FMul(PolyDen - p, PolyDen, param)

(* ----------------------------- ReplayBuffer --------------------------- *)
replay_size == 2

\* a buffer that refuses insertions once it is full
Extend_keep_oldest(buf, items) ==
  LET all == buf \o items
  IN  IF Len(all) <= replay_size THEN all ELSE SubSeq(all, 1, replay_size)

\* ReplayBuffer.extend: append, evicting the oldest beyond the capacity
Extend(buf, items) ==
  LET all == buf \o items
  IN  IF Len(all) <= replay_size THEN all
      ELSE SubSeq(all, Len(all) - replay_size + 1, Len(all))

\* a batch whose done flags all come from the first transition drawn
Sample_misaligned(buf, idx) ==
  [t      |-> [k \in DOMAIN idx |-> buf[idx[k]].t],
   env    |-> [k \in DOMAIN idx |-> buf[idx[k]].env],
   action |-> [k \in DOMAIN idx |-> buf[idx[k]].action],
   done   |-> [k \in DOMAIN idx |-> buf[idx[1]].done]]

\* ReplayBuffer.sample: the transitions at the drawn positions idx, batched
\* into parallel sequences, one per field
Sample(buf, idx) ==
  [t      |-> [k \in DOMAIN idx |-> buf[idx[k]].t],
   env    |-> [k \in DOMAIN idx |-> buf[idx[k]].env],
   action |-> [k \in DOMAIN idx |-> buf[idx[k]].action],
   done   |-> [k \in DOMAIN idx |-> buf[idx[k]].done]]

\* no batch drawn
NoBatch == [t |-> <<>>, env |-> <<>>, action |-> <<>>, done |-> <<>>]

(* ------------------------------- Init --------------------------------- *)
total_steps == MaxSteps * n_envs
MaxAct      == 1
RewardVals  == {1}
NoCall      == [by |-> "none", state |-> <<>>, deterministic |-> FALSE, raw |-> <<>>, eps |-> 0,
                action |-> <<>>, noise_before |-> "none", noise_after |-> "none"]
NoFn        == [f |-> "none"]
NoSync      == [done |-> FALSE]
NoStep      == [valid |-> FALSE]
NoLogged    == [valid |-> FALSE, calls |-> 0]
NoLoaded    == [valid |-> FALSE]

\* nothing of SpecLoss and SpecSync is in use
FnIdle == fn_in = NoFn /\ fn_out = NoFn

\* __init__ and _create_model, followed by the first lines of learn()
Init ==
  /\ policy_frequency \in 1..MaxFreq
  /\ update_interval \in 1..MaxInterval
  /\ start_update \in 0..MaxStartUpdate
  /\ start_steps \in 0..MaxStartSteps
  /\ batch_size \in 1..MaxBatch
  /\ max_ep_len \in 1..MaxEpLen
  /\ polyak \in 0..PolyDen
  /\ a_max \in 1..MaxAct
  /\ ac = [n \in Nets |-> 0]
  /\ ac_target = ac
  /\ requires_grad = [c \in Critics |-> TRUE]
  /\ noise \in {"none", "fresh"}
  /\ logs = [policy_loss |-> <<>>, value_loss |-> <<>>]
  /\ replay_buffer = <<>>
  /\ pc = "loop"
  /\ timestep = 0
  /\ state = [i \in Envs |-> 0]
  /\ episode_reward = [i \in Envs |-> 0]
  /\ episode_len = [i \in Envs |-> 0]
  /\ upd_timestep = 0
  /\ batch = NoBatch
  /\ call = NoCall
  /\ iters = <<>>
  /\ hist = <<>>
  /\ n_sync = 0
  /\ n_actor = 0
  /\ sync_from = NoSync
  /\ step_log = NoStep
  /\ logged = NoLogged
  /\ flush_mark = 0
  /\ loaded = NoLoaded
  /\ FnIdle

(* ------------------------------ learn --------------------------------- *)
\* the done flags stored as the environment reports them
MaskDone_none(ep_len, env_done) == env_done

\* the done flags as they are stored: False where max_ep_len is reached
MaskDone(ep_len, env_done) ==
  [i \in Envs |-> IF ep_len[i] = max_ep_len THEN FALSE ELSE env_done[i]]

\* the test of the episode boundary without the episode length
Boundary_done_only(done, ep_len) == \E i \in Envs : done[i]

\* the test of the episode boundary
Boundary(done, ep_len) ==
  (\E i \in Envs : done[i]) \/ (\E i \in Envs : ep_len[i] = max_ep_len)

\* the test of the update without its threshold
UpdateDue_no_start(t) == t % update_interval = 0

\* the test of the update with a strict threshold
UpdateDue_after_start(t) == t > start_update /\ t % update_interval = 0

\* the test of the update at the end of a pass
UpdateDue(t) == t >= start_update /\ t % update_interval = 0

\* the record of one select_action call
CallRecord(by, s, deterministic, eps) ==
  LET sel == select_action(s, deterministic, eps)
  IN  [by |-> by, state |-> s, deterministic |-> deterministic, raw |-> sel.raw, eps |-> eps,
       action |-> sel.action, noise_before |-> noise, noise_after |-> sel.noise]

\* one pass of the loop of learn(), up to the call of update_params
LearnStep ==
  /\ pc = "loop"
  /\ timestep < total_steps
  /\ \E eps \in (IF timestep > start_steps /\ noise # "none" THEN NoiseVals ELSE {0}),
        next_state \in [Envs -> StateVals],
        reward \in [Envs -> RewardVals],
        env_done \in [Envs -> BOOLEAN] :
       LET policy   == timestep > start_steps
           sel      == select_action(state, FALSE, eps)
           noise1   == IF policy THEN sel.noise ELSE noise
           src      == IF policy THEN "select_action" ELSE "sample"
           ep_rew   == [i \in Envs |-> episode_reward[i] + reward[i]]
           ep_len   == [i \in Envs |-> episode_len[i] + 1]
           done     == MaskDone(ep_len, env_done)
           boundary == Boundary(done, ep_len)
           items    == [i \in Envs |-> [t |-> timestep, env |-> i, action |-> src, done |-> done[i]]]
       IN  /\ call' = IF policy THEN CallRecord("learn", state, FALSE, eps) ELSE NoCall
           /\ replay_buffer' = Extend(replay_buffer, items)
           /\ step_log' = [valid |-> TRUE, t |-> timestep, action |-> src,
                           env_done |-> env_done, ep_len |-> ep_len,
                           iterations |-> Len(hist)]
           /\ IF boundary
                THEN /\ noise' = IF noise1 # "none" THEN "fresh" ELSE noise1
                     /\ state' = [i \in Envs |-> 0]
                     /\ episode_reward' = [i \in Envs |-> 0]
                     /\ episode_len' = [i \in Envs |-> 0]
                ELSE /\ noise' = noise1
                     /\ state' = next_state
                     /\ episode_reward' = ep_rew
                     /\ episode_len' = ep_len
  /\ IF UpdateDue(timestep)
       THEN /\ pc' = "sample"
            /\ upd_timestep' = 0
            /\ iters' = <<>>
            /\ timestep' = timestep
       ELSE /\ pc' = "loop"
            /\ timestep' = timestep + n_envs
            /\ UNCHANGED <<upd_timestep, iters>>
  /\ UNCHANGED <<hyper, outside, ac, ac_target, requires_grad, logs, batch, hist, n_sync,
                 n_actor, sync_from, fn>>

\* the loop of learn() is over: env.close()
LearnClose ==
  /\ pc = "loop"
  /\ timestep >= total_steps
  /\ pc' = "closed"
  /\ call' = NoCall
  /\ UNCHANGED <<hyper, outside, agent, rollout, upd_timestep, batch, history, fn>>

(* --------------------------- update_params ---------------------------- *)
\* replay_buffer.sample(batch_size) succeeds
UpdateSample ==
  /\ pc = "sample"
  /\ upd_timestep < update_interval
  /\ Len(replay_buffer) >= batch_size
  /\ \E idx \in [1..batch_size -> 1..Len(replay_buffer)] :
       batch' = Sample(replay_buffer, idx)
  /\ pc' = "critic"
  /\ call' = NoCall
  /\ UNCHANGED <<hyper, outside, agent, rollout, upd_timestep, history, fn>>

\* replay_buffer.sample(batch_size) raises: the buffer holds too little
UpdateSampleRaises ==
  /\ pc = "sample"
  /\ upd_timestep < update_interval
  /\ Len(replay_buffer) < batch_size
  /\ pc' = "sample_raised"
  /\ call' = NoCall
  /\ UNCHANGED <<hyper, outside, agent, rollout, upd_timestep, batch, history, fn>>

\* the loop of update_params is over: back in learn()
UpdateReturn ==
  /\ pc = "sample"
  /\ upd_timestep >= update_interval
  /\ pc' = "loop"
  /\ timestep' = timestep + n_envs
  /\ batch' = NoBatch
  /\ call' = NoCall
  /\ UNCHANGED <<hyper, outside, agent, state, episode_reward, episode_len, upd_timestep,
                 history, fn>>

\* the next iteration of the loop of update_params
NextIteration(actor_updated) ==
  /\ upd_timestep' = upd_timestep + 1
  /\ batch' = NoBatch
  /\ hist' = Append(hist, actor_updated)
  /\ pc' = "sample"

\* a parameter after one gradient step of its optimizer
GradStep(theta) == theta + 1

\* the values optimizer_q.step() can leave in a critic parameter: a gradient
\* step when the parameter requires grad; otherwise no gradient of the loss
\* reaches it, and the optimizer either skips it or moves it by its stale
\* moment estimates
QStep(net) ==
  IF requires_grad[net] THEN {GradStep(ac[net])} ELSE {ac[net], GradStep(ac[net])}

\* the delayed update counted from one instead of zero
DelayedUpdate_from_one(t) == (t + 1) % policy_frequency = 0

\* the condition of the delayed update
DelayedUpdate(t) == t % policy_frequency = 0

\* the target update moved out of the delayed block
AfterCritic_sync_always(t) == IF DelayedUpdate(t) THEN "freeze" ELSE "sync"

\* the delayed block entered at the actor step, without the freeze
AfterCritic_skip_freeze(t) == IF DelayedUpdate(t) THEN "actor" ELSE "next"

\* where an iteration goes after the critic step: into the delayed block,
\* or on to the next iteration
AfterCritic(t) == IF DelayedUpdate(t) THEN "freeze" ELSE "next"

\* the current iteration with one more step in its order of steps
Done(step) == [iters EXCEPT ![Len(iters)].order = Append(@, step)]

\* optimizer_q.zero_grad(); loss_q.backward(); optimizer_q.step()
CriticStep ==
  /\ pc = "critic"
  /\ \E q1 \in QStep("qf1"), q2 \in QStep("qf2") :
       ac' = [ac EXCEPT !["qf1"] = q1, !["qf2"] = q2]
  /\ iters' = Append(iters, [timestep |-> upd_timestep,
                             qf1 |-> requires_grad["qf1"], qf2 |-> requires_grad["qf2"],
                             actor |-> FALSE, sync |-> FALSE,
                             batch |-> Len(batch.done), target_used |-> ac_target,
                             order |-> <<"critic">>])
  /\ IF AfterCritic(upd_timestep) = "next"
       THEN NextIteration(FALSE)
       ELSE pc' = AfterCritic(upd_timestep) /\ UNCHANGED <<upd_timestep, batch, hist>>
  /\ call' = NoCall
  /\ UNCHANGED <<hyper, outside, ac_target, requires_grad, noise, logs, replay_buffer,
                 rollout, n_sync, n_actor, sync_from, step_log, fn>>

\* freeze critic params for policy update
Freeze ==
  /\ pc = "freeze"
  /\ requires_grad' = [c \in Critics |-> FALSE]
  /\ iters' = Done("freeze")
  /\ pc' = "actor"
  /\ call' = NoCall
  /\ UNCHANGED <<hyper, outside, ac, ac_target, noise, logs, replay_buffer, rollout,
                 upd_timestep, batch, hist, n_sync, n_actor, sync_from, step_log, fn>>

\* optimizer_policy.zero_grad(); loss_p.backward(); optimizer_policy.step()
ActorStep ==
  /\ pc = "actor"
  /\ ac' = [ac EXCEPT !["actor"] = GradStep(ac["actor"])]
  /\ iters' = [Done("actor") EXCEPT ![Len(iters)].actor = TRUE]
  /\ pc' = "unfreeze"
  /\ call' = NoCall
  /\ n_actor' = n_actor + 1
  /\ UNCHANGED <<hyper, outside, ac_target, requires_grad, noise, logs, replay_buffer,
                 rollout, upd_timestep, batch, hist, n_sync, sync_from, step_log, fn>>

\* the actor loss, its backward pass or the optimizer step raises
ActorStepRaises ==
  /\ pc = "actor"
  /\ pc' = "actor_raised"
  /\ call' = NoCall
  /\ UNCHANGED <<hyper, outside, agent, rollout, upd_timestep, batch, history, fn>>

\* unfreeze critic params
Unfreeze ==
  /\ pc = "unfreeze"
  /\ requires_grad' = [requires_grad EXCEPT !["qf1"] = TRUE]
  /\ iters' = Done("unfreeze")
  /\ pc' = "sync"
  /\ call' = NoCall
  /\ UNCHANGED <<hyper, outside, ac, ac_target, noise, logs, replay_buffer, rollout,
                 upd_timestep, batch, hist, n_sync, n_actor, sync_from, step_log, fn>>

\* update target network
Sync ==
  /\ pc = "sync"
  /\ ac_target' = [n \in Nets |-> PolyakUpdate(polyak, ac_target[n], ac[n])]
  /\ iters' = [Done("sync") EXCEPT ![Len(iters)].sync = TRUE]
  /\ n_sync' = n_sync + 1
  /\ sync_from' = [done |-> TRUE, target |-> ac_target, online |-> ac]
  /\ pc' = "log"
  /\ call' = NoCall
  /\ UNCHANGED <<hyper, outside, ac, requires_grad, noise, logs, replay_buffer, rollout,
                 upd_timestep, batch, hist, n_actor, step_log, fn>>

\* self.logs[...].append(...), the end of the delayed block
Log ==
  /\ pc = "log"
  /\ logs' = [policy_loss |-> Append(logs.policy_loss, Len(hist)),
              value_loss  |-> Append(logs.value_loss, Len(hist))]
  /\ NextIteration(TRUE)
  /\ call' = NoCall
  /\ UNCHANGED <<hyper, outside, ac, ac_target, requires_grad, noise, replay_buffer,
                 rollout, iters, n_sync, n_actor, sync_from, step_log, fn>>

(* ------------- select_action called once training is over ------------ *)
SelectAction ==
  /\ pc = "closed"
  /\ \E s \in [Envs -> StateVals], deterministic \in BOOLEAN,
        eps \in (IF noise # "none" THEN NoiseVals ELSE {0}) :
       /\ call' = CallRecord("caller", s, deterministic, eps)
       /\ noise' = call'.noise_after
  /\ UNCHANGED <<hyper, outside, ac, ac_target, requires_grad, logs, replay_buffer, pc,
                 rollout, upd_timestep, batch, history, fn>>

Next ==
  \/ LearnStep
  \/ LearnClose
  \/ UpdateSample
  \/ UpdateSampleRaises
  \/ UpdateReturn
  \/ CriticStep
  \/ Freeze
  \/ ActorStep
  \/ ActorStepRaises
  \/ Unfreeze
  \/ Sync
  \/ Log
  \/ SelectAction

Spec == Init /\ [][Next]_vars

(* ----------------------- get_logging_params --------------------------- *)
MaxFlush == 2   \* largest number of get_logging_params calls

RECURSIVE Sum(_)
Sum(seq) == IF seq = <<>> THEN 0 ELSE seq[1] + Sum(Tail(seq))

\* safe_mean: the mean of the samples, marked empty when there is none
safe_mean(seq) ==
  IF Len(seq) = 0 THEN [empty |-> TRUE, mean |-> 0]
  ELSE [empty |-> FALSE, mean |-> RoundDiv(Sum(seq), Len(seq))]

\* logs emptied of the policy losses only
empty_logs_policy_only == [policy_loss |-> <<>>, value_loss |-> logs.value_loss]

\* empty_logs: the logs it leaves
empty_logs == [policy_loss |-> <<>>, value_loss |-> <<>>]

\* get_logging_params, called between two passes or once training is over
GetLoggingParams ==
  /\ pc \in {"loop", "closed"}
  /\ logged.calls < MaxFlush
  /\ logged' = [valid |-> TRUE, calls |-> logged.calls + 1, since |-> flush_mark,
                before |-> logs,
                policy_loss |-> safe_mean(logs.policy_loss),
                value_loss  |-> safe_mean(logs.value_loss)]
  /\ logs' = empty_logs
  /\ flush_mark' = Len(hist)
  /\ call' = NoCall
  /\ UNCHANGED <<hyper, ac, ac_target, requires_grad, noise, replay_buffer, pc,
                 rollout, upd_timestep, batch, history, loaded, fn>>

(* --------------------------- load_weights ----------------------------- *)
WeightVals == {-1, 2}

\* load_weights loading the weights into the target networks as well
load_weights_into_target(weights) ==
  [ac        |-> [actor |-> weights.actor_weights, qf1 |-> weights.q1_weights,
                  qf2 |-> weights.q2_weights],
   ac_target |-> [actor |-> weights.actor_weights, qf1 |-> weights.q1_weights,
                  qf2 |-> weights.q2_weights]]

\* load_weights(weights): the online and the target parameters it leaves
load_weights(weights) ==
  [ac        |-> [actor |-> weights.actor_weights, qf1 |-> weights.q1_weights,
                  qf2 |-> weights.q2_weights],
   ac_target |-> ac_target]

\* load_weights, called once, before the first pass or once training is over
LoadWeights ==
  /\ ~loaded.valid
  /\ pc = "closed" \/ (pc = "loop" /\ ~step_log.valid)
  /\ \E w \in WeightVals :
       LET weights == [actor_weights |-> w, q1_weights |-> w + 1, q2_weights |-> w - 1]
       IN  /\ ac' = load_weights(weights).ac
           /\ ac_target' = load_weights(weights).ac_target
           /\ loaded' = [valid |-> TRUE, weights |-> weights, target |-> ac_target,
                         n_sync |-> n_sync]
  /\ call' = NoCall
  /\ UNCHANGED <<hyper, requires_grad, noise, logs, replay_buffer, pc, rollout,
                 upd_timestep, batch, history, logged, flush_mark, fn>>

(* ---------- a training run with calls from outside (SpecCalls) -------- *)
\* a run without warmup, noise and update threshold, of one-step episodes
InitCalls ==
  /\ Init
  /\ start_steps = 0
  /\ start_update = 0
  /\ max_ep_len = 1
  /\ noise = "none"

NextCalls ==
  \/ Next
  \/ GetLoggingParams
  \/ LoadWeights

SpecCalls == InitCalls /\ [][NextCalls]_vars

(* ------------- get_q_loss applied to a batch (SpecLoss) --------------- *)
LossBatch      == 2   \* largest batch
QMax           == 2   \* target critics' outputs range over -QMax..QMax
LossRewardVals == 0..1
QVals          == -QMax..QMax

\* the state of Init with the hyperparameters fixed
Quiet ==
  /\ policy_frequency = 1 /\ update_interval = 1 /\ start_update = 0
  /\ start_steps = 0 /\ batch_size = 1 /\ max_ep_len = 1 /\ a_max = 1
  /\ noise = "none"
  /\ logs = [policy_loss |-> <<>>, value_loss |-> <<>>]
  /\ timestep = 0
  /\ state = [i \in Envs |-> 0]
  /\ episode_reward = [i \in Envs |-> 0]
  /\ episode_len = [i \in Envs |-> 0]
  /\ upd_timestep = 0
  /\ call = NoCall
  /\ hist = <<>>
  /\ n_sync = 0
  /\ sync_from = NoSync
  /\ step_log = NoStep
  /\ logged = NoLogged
  /\ flush_mark = 0
  /\ loaded = NoLoaded

InitLoss ==
  /\ Quiet
  /\ polyak = PolyDen
  /\ ac = [n \in Nets |-> 0]
  /\ ac_target = ac
  /\ requires_grad = [c \in Critics |-> TRUE]
  /\ replay_buffer = <<>>
  /\ batch = NoBatch
  /\ iters = <<>>
  /\ n_actor = 0
  /\ pc = "get_q_loss"
  /\ \E B \in 1..LossBatch :
       \E gamma \in 1..(GammaDen - 1),
          reward \in [1..B -> {<<r>> : r \in LossRewardVals}],
          done \in [1..B -> 0..1],
          target_q1 \in [1..B -> QVals],
          target_q2 \in [1..B -> QVals] :
         fn_in = [f |-> "get_q_loss", gamma |-> gamma, reward |-> reward, done |-> done,
                  target_q1 |-> target_q1, target_q2 |-> target_q2]
  /\ fn_out = NoFn

\* the no-grad block of get_q_loss
GetQLoss ==
  /\ pc = "get_q_loss"
  /\ fn_out' = [f |-> "get_q_loss",
                target |-> target(fn_in.gamma, fn_in.reward, fn_in.done,
                                  fn_in.target_q1, fn_in.target_q2)]
  /\ pc' = "got_q_loss"
  /\ UNCHANGED <<hyper, outside, agent, rollout, upd_timestep, batch, call, history, fn_in>>

NextLoss == GetQLoss

SpecLoss == InitLoss /\ [][NextLoss]_vars

(* -------- one target update from any parameters (SpecSync) ------------ *)
SyncMax  == 1   \* parameters range over -SyncMax..SyncMax
SyncVals == -SyncMax..SyncMax

\* update_params about to update the target network, in its first iteration
InitSync ==
  /\ Quiet
  /\ polyak \in 0..PolyDen
  /\ ac \in [Nets -> SyncVals]
  /\ ac_target \in [Nets -> SyncVals]
  /\ requires_grad = [c \in Critics |-> c = "qf1"]
  /\ replay_buffer = <<[t |-> 0, env |-> 1, action |-> "sample", done |-> FALSE]>>
  /\ batch = Sample(replay_buffer, <<1>>)
  /\ iters = <<[timestep |-> 0, qf1 |-> TRUE, qf2 |-> TRUE, actor |-> TRUE, sync |-> FALSE,
                 batch |-> 1, target_used |-> ac_target,
                 order |-> <<"critic", "freeze", "actor", "unfreeze">>]>>
  /\ n_actor = 1
  /\ pc = "sync"
  /\ FnIdle

NextSync == Sync

SpecSync == InitSync /\ [][NextSync]_vars

(* ------------------------------ claims -------------------------------- *)
Abs(x) == IF x < 0 THEN -x ELSE x

\* update_params has run all its iterations and is about to return
Returning == pc = "sample" /\ upd_timestep = update_interval

\* C1: when update_params(N) returns, with policy_frequency = k, the actor
\* step and the target synchronization have run on exactly the iterations
\* whose counter is a multiple of k, that is on ceil(N/k) of the N iterations.
C1_Cadence ==
  Returning =>
    LET delayed == {j \in 1..Len(iters) : iters[j].actor}
    IN  /\ Len(iters) = update_interval
        /\ \A j \in 1..Len(iters) :
             /\ iters[j].timestep = j - 1
             /\ iters[j].actor <=> ((j - 1) % policy_frequency = 0)
             /\ iters[j].sync <=> ((j - 1) % policy_frequency = 0)
        /\ (Cardinality(delayed) - 1) * policy_frequency < update_interval
        /\ update_interval <= Cardinality(delayed) * policy_frequency

\* a call returns in which some iteration updated the critics only
C1_Witness ==
  /\ Returning
  /\ update_interval = MaxInterval
  /\ \E j \in 1..Len(iters) : ~iters[j].actor
  /\ \E j \in 1..Len(iters) : iters[j].actor /\ iters[j].sync

\* C2: over the whole run, any policy_frequency consecutive gradient
\* iterations contain at most one actor update.
C2_Window ==
  \A a \in 1..Len(hist) : \A b \in (a + 1)..Len(hist) :
    (hist[a] /\ hist[b]) => b - a >= policy_frequency

\* C3: between iterations every parameter of both online critics requires
\* grad again.
C3_CriticsTrainable ==
  pc \in {"sample", "loop", "closed"} => \A c \in Critics : requires_grad[c]

\* C4: in every iteration the gradient step of the critic loss is applied to
\* the parameters of both critic-1 and critic-2.
C4_BothCriticsStepped ==
  \A j \in 1..Len(iters) : iters[j].qf1 /\ iters[j].qf2

\* C5: when the actor step raises inside the delayed block, the critic
\* parameters are nevertheless left requiring grad.
C5_ExceptionSafe ==
  pc = "actor_raised" => \A c \in Critics : requires_grad[c]

\* C6: a step changes a target parameter only if it is the target update of
\* an iteration whose actor step has run, and the number of target updates
\* never exceeds the number of actor steps.
C6_TargetFrame ==
  /\ [][ac_target' # ac_target => (pc = "sync" /\ iters[Len(iters)].actor)]_vars
  /\ [](n_sync <= n_actor)

\* training is over after target updates, critic-only iterations, buffer
\* insertions and a select_action call
C6_Witness ==
  /\ pc = "closed"
  /\ call.by = "caller"
  /\ n_sync >= 1
  /\ \E n \in Nets : ac_target[n] # 0
  /\ \E j \in 1..Len(hist) : ~hist[j]
  /\ Len(replay_buffer) >= 1

\* C7: for every batch element the target is reward + gamma * (1 - done) *
\* min(target_q1, target_q2), the product rounded to the grid; with done = 1
\* it is the reward exactly.
C7_Target ==
  fn_out.f = "get_q_loss" =>
    /\ Len(fn_out.target) = Len(fn_in.done)
    /\ \A i \in 1..Len(fn_out.target) :
         LET r == fn_in.reward[i][1]
             y == fn_out.target[i]
             m == IF fn_in.target_q1[i] <= fn_in.target_q2[i]
                    THEN fn_in.target_q1[i] ELSE fn_in.target_q2[i]
         IN  /\ fn_in.done[i] = 1 => y = r
             /\ fn_in.done[i] = 0 =>
                  2 * Abs(GammaDen * (y - r) - fn_in.gamma * m) <= GammaDen

\* a batch with a terminal transition whose target critics disagree and are
\* not zero, and a non-terminal one whose target critics disagree
C7_Witness ==
  /\ fn_out.f = "get_q_loss"
  /\ \E i \in 1..Len(fn_out.target) :
       /\ fn_in.done[i] = 1
       /\ fn_in.target_q1[i] = QMax /\ fn_in.target_q2[i] = 1
  /\ \E i \in 1..Len(fn_out.target) :
       /\ fn_in.done[i] = 0
       /\ fn_in.target_q1[i] = QMax /\ fn_in.target_q2[i] = -QMax
       /\ fn_out.target[i] < fn_in.reward[i][1]

\* C8 as stated: after a target update every target parameter lies between
\* its old value and the online value, equals the old value when polyak = 1
\* and the online value when polyak = 0, and the online parameters are
\* unchanged.
C8_Between ==
  (pc = "log" /\ sync_from.done) =>
    /\ ac = sync_from.online
    /\ \A n \in Nets :
         LET old == sync_from.target[n]
             on  == sync_from.online[n]
             lo  == IF old <= on THEN old ELSE on
             hi  == IF old <= on THEN on ELSE old
         IN  /\ lo <= ac_target[n] /\ ac_target[n] <= hi
             /\ polyak = PolyDen => ac_target[n] = old
             /\ polyak = 0 => ac_target[n] = on

\* C8 amended: every target parameter is within the rounding of the two
\* products (one grid unit) of polyak * old + (1 - polyak) * online, hence of
\* the interval between the two; it equals the old value when polyak = 1 and
\* the online value when polyak = 0; the online parameters are unchanged.
C8_BetweenRounded ==
  (pc = "log" /\ sync_from.done) =>
    /\ ac = sync_from.online
    /\ \A n \in Nets :
         LET old == sync_from.target[n]
             on  == sync_from.online[n]
             lo  == IF old <= on THEN old ELSE on
             hi  == IF old <= on THEN on ELSE old
         IN  /\ Abs(PolyDen * ac_target[n] - (polyak * old + (PolyDen - polyak) * on))
                  <= PolyDen
             /\ lo - 1 <= ac_target[n] /\ ac_target[n] <= hi + 1
             /\ polyak = PolyDen => ac_target[n] = old
             /\ polyak = 0 => ac_target[n] = on

\* a target update with 0 < polyak < 1 moved a target parameter strictly
\* between its old value and the online value
C8_Witness ==
  /\ pc = "log" /\ sync_from.done
  /\ 0 < polyak /\ polyak < PolyDen
  /\ \E n \in Nets :
       /\ sync_from.target[n] < ac_target[n]
       /\ ac_target[n] < sync_from.online[n]

\* C9: every component of the action select_action returns lies within
\* [-a_max, a_max].
C9_ActionBound ==
  call.by # "none" =>
    \A i \in DOMAIN call.action :
      -a_max <= call.action[i] /\ call.action[i] <= a_max

\* select_action was called with noise and the noisy action was out of bounds
C9_Witness ==
  /\ call.by # "none"
  /\ call.noise_before # "none"
  /\ \E i \in DOMAIN call.action : Abs(call.raw[i] + call.eps) > a_max

\* C10: select_action samples noise only when noise is configured and
\* deterministic is False; with deterministic = True it returns the clipped
\* output of the target actor and leaves the noise process as it was.
C10_Deterministic ==
  call.by # "none" =>
    /\ call.noise_after # call.noise_before =>
         (call.noise_before # "none" /\ ~call.deterministic)
    /\ call.deterministic =>
         \A i \in DOMAIN call.action :
           call.action[i] = (IF call.raw[i] < -a_max THEN -a_max
                             ELSE IF call.raw[i] > a_max THEN a_max ELSE call.raw[i])

\* C11: a pass whose step count is below start_steps takes its action from
\* env.sample(), a pass whose step count is start_steps or more takes it from
\* select_action.
C11_Warmup ==
  step_log.valid =>
    /\ step_log.t < start_steps => step_log.action = "sample"
    /\ step_log.t >= start_steps => step_log.action = "select_action"

\* the number of transitions inserted so far
Inserted == IF step_log.valid THEN step_log.t + n_envs ELSE 0

\* C12 as stated: whenever update_params is about to sample, the buffer
\* holds at least batch_size transitions, and sampling never raises.
C12_EnoughData ==
  /\ (pc = "sample" /\ upd_timestep < update_interval) =>
       Len(replay_buffer) >= batch_size
  /\ pc # "sample_raised"

\* C12 amended: the same, for hyperparameters with
\* batch_size <= replay_size and batch_size <= start_update + n_envs.
C12_EnoughDataConfigured ==
  (batch_size <= replay_size /\ batch_size <= start_update + n_envs) =>
    /\ (pc = "sample" /\ upd_timestep < update_interval) =>
         Len(replay_buffer) >= batch_size
    /\ pc # "sample_raised"

\* an update samples with the buffer holding exactly one batch, on the first
\* pass the guard lets through
C12_Witness ==
  /\ pc = "critic"
  /\ start_update >= 1
  /\ batch_size >= 2
  /\ step_log.t < start_update + n_envs
  /\ Len(replay_buffer) = batch_size
  /\ Len(batch.done) = batch_size

\* C13: between two passes, the number of gradient iterations the last pass
\* has run is update_interval if its step count t satisfies t >= start_update
\* and t is a multiple of update_interval, and zero otherwise; update_params
\* runs only on such a pass, and each iteration has sampled a batch of
\* batch_size transitions.
C13_UpdateSchedule ==
  step_log.valid =>
    LET t   == step_log.t
        due == t >= start_update /\ t % update_interval = 0
        ran == Len(hist) - step_log.iterations
    IN  /\ pc \in {"loop", "closed"} =>
             ran = (IF due THEN update_interval ELSE 0)
        /\ pc \notin {"loop", "closed"} => due /\ ran <= update_interval
        /\ due => \A j \in 1..Len(iters) : iters[j].batch = batch_size

\* a pass below start_update has run no iteration, and a later pass has run
\* update_interval of them
C13_Witness ==
  /\ pc = "loop"
  /\ step_log.valid
  /\ start_update >= 1
  /\ update_interval = MaxInterval
  /\ step_log.t >= start_update
  /\ Len(hist) - step_log.iterations = update_interval
  /\ Len(hist) = update_interval

\* the environment i ended its episode on the last pass
EpisodeEnded(i) ==
  step_log.env_done[i] \/ step_log.ep_len[i] = max_ep_len

\* the position, from zero, of a stored transition among all insertions
Position(tr) == tr.t + tr.env - 1

\* C14: after a pass on which an environment ended its episode, and before
\* any call from outside, that environment's episode reward and length are
\* zero, the noise process is reset, and the buffer still holds what it
\* held, the transition of that pass included.
C14_EpisodeBoundary ==
  (step_log.valid /\ call.by # "caller") =>
    \A i \in Envs :
      EpisodeEnded(i) =>
        /\ episode_reward[i] = 0
        /\ episode_len[i] = 0
        /\ noise \in {"none", "fresh"}
        /\ Len(replay_buffer) = (IF Inserted <= replay_size THEN Inserted ELSE replay_size)
        /\ \E k \in 1..Len(replay_buffer) :
             replay_buffer[k].t = step_log.t /\ replay_buffer[k].env = i

\* an episode ended on its length alone, after a pass that used the noise
C14_Witness ==
  /\ step_log.valid
  /\ pc = "loop"
  /\ \E i \in Envs : ~step_log.env_done[i] /\ step_log.ep_len[i] = max_ep_len
  /\ step_log.ep_len[1] >= 2
  /\ step_log.action = "select_action"
  /\ noise = "fresh"
  /\ Len(replay_buffer) >= 2

\* C15: the buffer never holds more than replay_size transitions, and it
\* holds exactly the most recently inserted ones, oldest first.
C15_Fifo ==
  LET held == IF Inserted <= replay_size THEN Inserted ELSE replay_size
  IN  /\ Len(replay_buffer) <= replay_size
      /\ Len(replay_buffer) = held
      /\ \A k \in 1..Len(replay_buffer) :
           Position(replay_buffer[k]) = Inserted - held + k - 1

\* more transitions were inserted than the buffer holds
C15_Witness ==
  /\ Inserted >= replay_size + 2
  /\ Len(replay_buffer) = replay_size
  /\ Position(replay_buffer[1]) >= 2

\* C19: the transition of a pass is stored with done = False for an
\* environment whose episode length reached max_ep_len on that pass, whatever
\* the environment reported, and that episode is ended all the same; for any
\* other environment the stored flag is the one the environment reported.
C19_StoredDone ==
  step_log.valid =>
    \A i \in Envs : \A k \in 1..Len(replay_buffer) :
      (replay_buffer[k].t = step_log.t /\ replay_buffer[k].env = i) =>
        IF step_log.ep_len[i] = max_ep_len
          THEN /\ replay_buffer[k].done = FALSE
               /\ episode_len[i] = 0
               /\ episode_reward[i] = 0
               /\ state[i] = 0
          ELSE replay_buffer[k].done = step_log.env_done[i]

\* the environment reported done on the pass that reached max_ep_len, and
\* the transition is stored as not done
C19_Witness ==
  /\ step_log.valid
  /\ step_log.t >= 1
  /\ \E i \in Envs :
       /\ step_log.env_done[i]
       /\ step_log.ep_len[i] = max_ep_len
       /\ \E k \in 1..Len(replay_buffer) :
            /\ replay_buffer[k].t = step_log.t /\ replay_buffer[k].env = i
            /\ ~replay_buffer[k].done

\* the steps of a delayed iteration, in order
DelayedOrder == <<"critic", "freeze", "actor", "unfreeze", "sync">>

\* C18: the steps of every iteration are, in this order, the critic step
\* and, on delayed iterations only, freeze, actor step, unfreeze and target
\* update; the critic step has used the target parameters the target update
\* of the same iteration starts from.
C18_Order ==
  \A j \in 1..Len(iters) :
    LET order   == iters[j].order
        delayed == (j - 1) % policy_frequency = 0
        over    == j < Len(iters) \/ pc \in {"sample", "loop", "closed"}
    IN  /\ Len(order) >= 1 /\ Len(order) <= Len(DelayedOrder)
        /\ order = SubSeq(DelayedOrder, 1, Len(order))
        /\ ~delayed => order = <<"critic">>
        /\ (over /\ delayed) => order = DelayedOrder
        /\ (j = Len(iters) /\ iters[j].sync) => sync_from.target = iters[j].target_used

\* a call in which a delayed iteration that moved the target is followed by
\* an iteration of the critic step alone
C18_Witness ==
  /\ Len(iters) >= 2
  /\ iters[1].order = DelayedOrder
  /\ iters[2].order = <<"critic">>
  /\ iters[1].target_used # ac_target

\* C16: sampling leaves the buffer as it is; it raises exactly when
\* batch_size exceeds the length of the buffer, and otherwise returns
\* batch_size transitions, each of them stored in the buffer with the fields
\* found at the same position of the batch.
C16_Sample ==
  [][(pc = "sample" /\ upd_timestep < update_interval) =>
       /\ replay_buffer' = replay_buffer
       /\ IF batch_size > Len(replay_buffer)
            THEN pc' = "sample_raised"
            ELSE /\ pc' = "critic"
                 /\ Len(batch'.t) = batch_size
                 /\ Len(batch'.env) = batch_size
                 /\ Len(batch'.action) = batch_size
                 /\ Len(batch'.done) = batch_size
                 /\ \A k \in 1..batch_size : \E j \in 1..Len(replay_buffer) :
                      replay_buffer[j] = [t |-> batch'.t[k], env |-> batch'.env[k],
                                          action |-> batch'.action[k],
                                          done |-> batch'.done[k]]]_vars

\* a batch of two different transitions, one done and one not, was drawn
C16_Witness ==
  /\ pc = "critic"
  /\ Len(batch.done) = 2
  /\ batch.t[1] # batch.t[2]
  /\ batch.done[1] # batch.done[2]
  /\ Len(replay_buffer) = 2

\* the stamps of the iterations from+1..to that recorded their losses
RECURSIVE Stamps(_, _)
Stamps(from, to) ==
  IF to <= from THEN <<>>
  ELSE IF hist[to] THEN Append(Stamps(from, to - 1), to - 1)
       ELSE Stamps(from, to - 1)

\* m is the mean of the sequence seq, up to rounding
IsMean(m, seq) ==
  IF Len(seq) = 0 THEN m.empty
  ELSE ~m.empty /\ 2 * Abs(Len(seq) * m.mean - Sum(seq)) <= Len(seq)

\* C17: policy_loss and value_loss always have the same length and hold the
\* samples recorded since the previous get_logging_params call; a call
\* returns the means of the samples recorded since the call before it and
\* leaves both sequences empty, so that a second call with no update in
\* between reports over empty sequences.
C17_Logging ==
  /\ Len(logs.policy_loss) = Len(logs.value_loss)
  /\ logs.policy_loss = Stamps(flush_mark, Len(hist))
  /\ logs.value_loss = Stamps(flush_mark, Len(hist))
  /\ logged.valid =>
       /\ logged.before.policy_loss = Stamps(logged.since, flush_mark)
       /\ logged.before.value_loss = Stamps(logged.since, flush_mark)
       /\ IsMean(logged.policy_loss, logged.before.policy_loss)
       /\ IsMean(logged.value_loss, logged.before.value_loss)
       /\ flush_mark = Len(hist) => logs = [policy_loss |-> <<>>, value_loss |-> <<>>]
       /\ (logged.calls = 2 /\ logged.since = flush_mark) =>
            /\ logged.before = [policy_loss |-> <<>>, value_loss |-> <<>>]
            /\ logged.policy_loss.empty
            /\ logged.value_loss.empty

\* the second call reported the mean of samples recorded after the first
\* one, which had reported samples too, and a new sample was recorded since
C17_Witness ==
  /\ logged.valid
  /\ logged.calls = 2
  /\ logged.since > 0
  /\ Len(logged.before.policy_loss) >= 1
  /\ ~logged.policy_loss.empty
  /\ Len(logs.value_loss) >= 1

\* C20: load_weights replaces the parameters of the online actor and of
\* both online critics by the loaded ones and leaves every target parameter
\* as it was; until the next target synchronization the target networks are
\* the ones from before the load, and select_action returns the action of
\* the target actor from before the load.
C20_LoadWeights ==
  /\ [][(~loaded.valid /\ loaded'.valid) =>
          /\ ac' = [actor |-> loaded'.weights.actor_weights,
                    qf1   |-> loaded'.weights.q1_weights,
                    qf2   |-> loaded'.weights.q2_weights]
          /\ ac_target' = ac_target
          /\ loaded'.target = ac_target]_vars
  /\ []((loaded.valid /\ n_sync = loaded.n_sync) =>
          /\ ac_target = loaded.target
          /\ call.by = "caller" =>
               \A i \in Envs :
                 /\ call.raw[i] = get_action(loaded.target["actor"], call.state[i])
                 /\ call.action[i] = Clip(call.raw[i] + call.eps, -a_max, a_max))

\* select_action was called right after weights that differ from the target
\* actor's were loaded, with no synchronization since
C20_Witness ==
  /\ pc = "closed"
  /\ loaded.valid
  /\ n_sync = loaded.n_sync
  /\ n_sync > 0
  /\ call.by = "caller"
  /\ loaded.weights.actor_weights # loaded.target["actor"]
  /\ ac["actor"] = loaded.weights.actor_weights
  /\ \E i \in Envs : get_action(ac["actor"], call.state[i]) # call.raw[i]
====
